---- MODULE Spec2Model ----
(***************************************************************************)
(* Diagnostic polling engine of the dashboard home page.                   *)
(*                                                                         *)
(* HomePage (src/src/app/page.tsx) keeps five pieces of React state        *)
(* (diagnostics, loading, lastChecked, refreshKey, autoRefresh), runs      *)
(* fetchDiagnostics from an effect keyed on refreshKey, and owns a 30 s    *)
(* interval that bumps refreshKey.  fetchDiagnostics is an async function: *)
(* each of its awaits is a suspension point, so several invocations can be *)
(* suspended at once.  A cycle is one invocation; cycles are numbered in   *)
(* the order in which they start.                                          *)
(***************************************************************************)
EXTENDS Integers, Sequences, FiniteSets, TLC

\* ------------------------------------------------------------------ bounds
\* Number of fetchDiagnostics invocations a behaviour may start.
MaxCycles == 2

CycleIds == 1..MaxCycles

\* ------------------------------------------------------- program constants
\* latency above which an endpoint counts as slow (detectProblems rule 7)
SlowLatencyMs == 1000
\* abort timeout of checkEndpoint
ProbeTimeoutMs == 10000

\* --------------------------------------------------------------- strings
\* Plugin identifiers are sequences of one-character strings, so that
\* toLowerCase() and includes() are computed and not assumed.
W_store      == <<"s","t","o","r","e">>
W_supervisor == <<"s","u","p","e","r","v","i","s","o","r">>
W_memory     == <<"m","e","m","o","r","y">>
W_postgres   == <<"p","o","s","t","g","r","e","s">>
W_database   == <<"d","a","t","a","b","a","s","e">>
W_stm        == <<"s","t","m">>
W_db         == <<"d","b">>
W_dash       == <<"-">>
W_StoreCap   == <<"S","t","o","r","e">>
W_PostgresCap == <<"P","o","s","t","g","r","e","s">>
W_cache      == <<"c","a","c","h","e">>

UpperChars == <<"A","B","C","D","E","F","G","H","I","J","K","L","M",
                "N","O","P","Q","R","S","T","U","V","W","X","Y","Z">>
LowerChars == <<"a","b","c","d","e","f","g","h","i","j","k","l","m",
                "n","o","p","q","r","s","t","u","v","w","x","y","z">>

\* String.prototype.toLowerCase on one character
LowerChar(ch) ==
  IF \E i \in 1..26 : UpperChars[i] = ch
    THEN LowerChars[CHOOSE i \in 1..26 : UpperChars[i] = ch]
    ELSE ch

\* toLowerCase that leaves the string as it is
toLowerCase_Identity(s) == s

\* String.prototype.toLowerCase
toLowerCase(s) == [i \in 1..Len(s) |-> LowerChar(s[i])]

\* String.prototype.includes: needle occurs as a contiguous substring
includes(hay, needle) ==
  \E i \in 1..(Len(hay) - Len(needle) + 1) :
    SubSeq(hay, i, i + Len(needle) - 1) = needle

\* ------------------------------------------------------------- JS values
\* A JSON value found in a plugin's name or id field.
JsUndefined == [t |-> "undefined", s |-> <<>>]
JsString(s) == [t |-> "string", s |-> s]
\* a non-zero number, e.g. { "name": 7 }
JsNumber    == [t |-> "number", s |-> <<>>]

\* JavaScript truthiness of such a value
Truthy(v) ==
  \/ v.t = "number"
  \/ v.t = "string" /\ Len(v.s) > 0

\* a || b
OrElse(a, b) == IF Truthy(a) THEN a ELSE b

\* ------------------------------------------------------ API client results
\* Outcomes of the GET /health request issued by healthCheck.
HealthNets == {"ok", "notok", "neterr"}

\* UltraSecureApiClient.healthCheck: plain fetch, no abort signal; the
\* status is derived from response.ok only and a rejected fetch is caught.
\* The returned object has the fields status, cors and timestamp.
healthCheck(net) ==
  [status |-> CASE net = "ok"    -> "healthy"
                [] net = "notok" -> "unhealthy"
                [] OTHER         -> "error"]

\* A /health payload as read by the page: status string and the nested
\* checks.database / checks.redis flags ("true", "false" or "absent").
NoData == [defined |-> FALSE, status |-> "", database |-> "absent",
           redis |-> "absent"]
HealthPayload(st, db, rd) ==
  [defined |-> TRUE, status |-> st, database |-> db, redis |-> rd]

\* healthResult.data: the object healthCheck returns has no data field.
HealthResultData(result) == NoData

\* A /ready payload: the ready field is "true", "false" or "absent".
NoReady == [defined |-> FALSE, ready |-> "absent"]
ReadyPayload(rdy) == [defined |-> TRUE, ready |-> rdy]

\* Outcomes of the readiness call.
ReadyNets == {"ready", "not_ready", "neterr"}

\* readyCheck: reports ready / not_ready with the payload, and error
\* without a payload when the endpoint cannot be reached.
readyCheck(net) ==
  CASE net = "ready"     -> [status |-> "ready",     data |-> ReadyPayload("true")]
    [] net = "not_ready" -> [status |-> "not_ready", data |-> ReadyPayload("false")]
    [] OTHER             -> [status |-> "error",     data |-> NoReady]

\* One element of the plugin listing.
RawPlugin(name, id, health) ==
  [isNull |-> FALSE, name |-> name, id |-> id, health |-> health]
NullPlugin ==
  [isNull |-> TRUE, name |-> JsUndefined, id |-> JsUndefined, health |-> "absent"]

\* checkPlugins: either rejects, or resolves with a status and (possibly) a
\* plugin array.
PluginsThrow == [throws |-> TRUE, status |-> "", hasPlugins |-> FALSE, plugins |-> <<>>]
PluginsUnavailable ==
  [throws |-> FALSE, status |-> "unavailable", hasPlugins |-> FALSE, plugins |-> <<>>]
PluginsNoArray ==
  [throws |-> FALSE, status |-> "available", hasPlugins |-> FALSE, plugins |-> <<>>]
PluginsAvailable(list) ==
  [throws |-> FALSE, status |-> "available", hasPlugins |-> TRUE, plugins |-> list]

\* checkMetrics: rejects, or resolves with a status.
MetricsNets == {"available", "unavailable", "throw"}

\* ------------------------------------------------------- endpoint prober
\* What the network does with one probe: an HTTP response with a status
\* code, a rejected fetch, or silence until the abort timer fires.
\* message and isError describe the value the try block throws.
ProbeResponse(code, ms) ==
  [kind |-> "response", code |-> code, ms |-> ms,
   message |-> "", isError |-> FALSE]
ProbeNetError(ms) ==
  [kind |-> "reject", code |-> 0, ms |-> ms,
   message |-> "Failed to fetch", isError |-> TRUE]
ProbeSilent ==
  [kind |-> "silent", code |-> 0, ms |-> ProbeTimeoutMs,
   message |-> "The operation was aborted", isError |-> TRUE]
\* something inside the try throws a value that is not an Error
ProbeThrowsValue(ms) ==
  [kind |-> "throw", code |-> 0, ms |-> ms,
   message |-> "", isError |-> FALSE]

\* the error field of an EndpointCheck: undefined, `HTTP ${status}`, or a
\* message
NoError         == [text |-> "", code |-> 0]
HttpError(code) == [text |-> "HTTP", code |-> code]
MessageError(m) == [text |-> m, code |-> 0]

\* Response.ok that also accepts redirects
ResponseOk_Below400(code) == code >= 200 /\ code <= 399

\* Response.ok
ResponseOk(code) == code >= 200 /\ code <= 299

\* checkEndpoint(name, path): never throws; latency is measured on both
\* paths; the abort after ProbeTimeoutMs lands in the catch.
checkEndpoint(name, net) ==
  IF net.kind = "response"
    THEN [name    |-> name,
          status  |-> IF ResponseOk(net.code) THEN "success" ELSE "error",
          latency |-> net.ms,
          error   |-> IF ResponseOk(net.code) THEN NoError
                      ELSE HttpError(net.code)]
    ELSE [name    |-> name,
          status  |-> "error",
          latency |-> net.ms,
          error   |-> IF net.isError THEN MessageError(net.message)
                      ELSE MessageError("Network error")]

\* ------------------------------------------------------ problem detector
\* A Problem: id, severity, related ids, and the names the rule puts into
\* its title/description (names) and into its steps (found).
Problem(id, severity, related, names, found) ==
  [id |-> id, severity |-> severity, related |-> related,
   names |-> names, found |-> found]

\* a.map(f) for the two maps detectProblems uses
NamesOf(endpoints) == [i \in 1..Len(endpoints) |-> endpoints[i].name]

\* criticalPlugins
criticalPlugins ==
  << [name |-> "store",
      patterns |-> << W_store, W_store \o W_dash \o W_postgres,
                      W_database \o W_dash \o W_postgres >>],
     [name |-> "supervisor",
      patterns |-> << W_supervisor, W_supervisor \o W_dash \o W_postgres >>],
     [name |-> "memory",
      patterns |-> << W_memory, W_memory \o W_dash \o W_stm,
                      W_memory \o W_dash \o W_stm \o W_dash \o W_db >>] >>

\* (p.name || p.id || '') of a PluginStatus, which has no id field
PluginKey(p) == OrElse(p.name, OrElse(JsUndefined, JsString(<<>>)))

\* .toLowerCase() exists on strings only: a numeric name raises a TypeError
DetectThrows(plugins) ==
  \E i \in 1..Len(plugins) : PluginKey(plugins[i]).t # "string"

\* foundPluginNames
foundPluginNames(plugins) ==
  [i \in 1..Len(plugins) |-> toLowerCase(PluginKey(plugins[i]).s)]

\* the patterns.some(... foundPluginNames.some(... includes ...)) test
PluginFound(entry, found) ==
  \E j \in 1..Len(entry.patterns) :
    \E i \in 1..Len(found) :
      includes(found[i], toLowerCase(entry.patterns[j]))

PluginIsMissing(entry, found) == ~PluginFound(entry, found)

\* missingPlugins, in the order of criticalPlugins
RECURSIVE MissingFrom(_, _)
MissingFrom(k, found) ==
  IF k > Len(criticalPlugins) THEN <<>>
  ELSE (IF PluginIsMissing(criticalPlugins[k], found)
          THEN << criticalPlugins[k].name >> ELSE <<>>)
       \o MissingFrom(k + 1, found)

missingPlugins(plugins) == MissingFrom(1, foundPluginNames(plugins))

IsFailed(e) == e.status = "error"
\* e.latency && e.latency > 1000
IsSlow(e) == e.latency # 0 /\ e.latency > SlowLatencyMs

Rule1(healthData) ==
  IF ~healthData.defined \/ healthData.status # "healthy"
    THEN << Problem("health-failure", "critical", <<>>, <<>>, <<>>) >>
    ELSE <<>>

\* Rule2 whose severity test is !readyData?.ready
Rule2_FalsyIsWarning(readyData) ==
  IF ~readyData.defined \/ readyData.ready # "true"
    THEN << Problem("readiness-failure",
                    IF readyData.defined /\ readyData.ready \in {"false", "absent"}
                      THEN "warning" ELSE "critical",
                    <<>>, <<>>, <<>>) >>
    ELSE <<>>

Rule2(readyData) ==
  IF ~readyData.defined \/ readyData.ready # "true"
    THEN << Problem("readiness-failure",
                    IF readyData.defined /\ readyData.ready = "false"
                      THEN "warning" ELSE "critical",
                    <<>>, <<>>, <<>>) >>
    ELSE <<>>

Rule3(healthData) ==
  IF healthData.defined /\ healthData.database = "false"
    THEN << Problem("database-connection", "critical",
                    << "readiness-failure" >>, <<>>, <<>>) >>
    ELSE <<>>

Rule4(healthData) ==
  IF healthData.defined /\ healthData.redis = "false"
    THEN << Problem("redis-connection", "warning", <<>>, <<>>, <<>>) >>
    ELSE <<>>

\* Rule5 reporting the missing plugins as a warning
Rule5_Warning(plugins) ==
  IF Len(missingPlugins(plugins)) > 0 /\ Len(plugins) > 0
    THEN << Problem("missing-plugins", "warning", <<>>,
                    missingPlugins(plugins), foundPluginNames(plugins)) >>
    ELSE <<>>

\* Rule5 without the plugins.length > 0 test
Rule5_NoListGuard(plugins) ==
  IF Len(missingPlugins(plugins)) > 0
    THEN << Problem("missing-plugins", "critical", <<>>,
                    missingPlugins(plugins), foundPluginNames(plugins)) >>
    ELSE <<>>

Rule5(plugins) ==
  IF Len(missingPlugins(plugins)) > 0 /\ Len(plugins) > 0
    THEN << Problem("missing-plugins", "critical", <<>>,
                    missingPlugins(plugins), foundPluginNames(plugins)) >>
    ELSE <<>>

\* Rule6 that is critical as soon as most endpoints failed
Rule6_Majority(endpoints) ==
  LET failedEndpoints == SelectSeq(endpoints, IsFailed) IN
  IF Len(failedEndpoints) > 0
    THEN << Problem("endpoint-failures",
                    IF 2 * Len(failedEndpoints) > Len(endpoints)
                      THEN "critical" ELSE "warning",
                    <<>>, NamesOf(failedEndpoints), <<>>) >>
    ELSE <<>>

Rule6(endpoints) ==
  LET failedEndpoints == SelectSeq(endpoints, IsFailed) IN
  IF Len(failedEndpoints) > 0
    THEN << Problem("endpoint-failures",
                    IF Len(failedEndpoints) = Len(endpoints)
                      THEN "critical" ELSE "warning",
                    <<>>, NamesOf(failedEndpoints), <<>>) >>
    ELSE <<>>

Rule7(endpoints) ==
  LET slowEndpoints == SelectSeq(endpoints, IsSlow) IN
  IF Len(slowEndpoints) > 0
    THEN << Problem("high-latency", "warning", <<>>,
                    NamesOf(slowEndpoints), <<>>) >>
    ELSE <<>>

\* detectProblems with the plugin rule evaluated last
detectProblems_PluginsLast(healthData, readyData, plugins, endpoints) ==
  Rule1(healthData) \o Rule2(readyData) \o Rule3(healthData)
    \o Rule4(healthData) \o Rule6(endpoints) \o Rule7(endpoints)
    \o Rule5(plugins)

\* detectProblems(healthData, readyData, plugins, endpoints), when it
\* returns (see DetectThrows)
detectProblems(healthData, readyData, plugins, endpoints) ==
  Rule1(healthData) \o Rule2(readyData) \o Rule3(healthData)
    \o Rule4(healthData) \o Rule5(plugins) \o Rule6(endpoints)
    \o Rule7(endpoints)

\* the synthetic problem of the top-level catch
ConnectionError == Problem("connection-error", "critical", <<>>, <<>>, <<>>)

\* ---------------------------------------------------------------- state
VARIABLES
  mounted,      \* HomePage is mounted (its effects have run, no cleanup yet)
  diagnostics,  \* useState<SystemDiagnostics>
  loading,      \* useState(true)
  lastChecked,  \* useState<Date | null>: 0 is null, c the Date cycle c set
  refreshKey,   \* useState(0)
  autoRefresh,  \* useState(true)
  timerActive,  \* the setInterval of the auto-refresh effect exists
  cycles,       \* per invocation of fetchDiagnostics: position and locals
  started,      \* number of fetchDiagnostics invocations so far
  origin,       \* history: for each diagnostics field, the cycle that wrote it
  event,        \* history: the UI or timer handler that ran last; a toggle
                \* of autoRefresh made while a cycle was in flight is
                \* recorded as "toggle-busy"
  detectIn,     \* arguments of a call of detectProblems made on its own
  detectOut,    \* what that call returned
  probeIn,      \* arguments of a call of checkEndpoint made on its own
  probeOut,     \* what that call returned
  intervals     \* number of setInterval timers created and not cleared

vars == << mounted, diagnostics, loading, lastChecked, refreshKey,
           autoRefresh, timerActive, cycles, started, origin, event,
           detectIn, detectOut, probeIn, probeOut, intervals >>

Fields == {"globalStatus", "healthStatus", "readyStatus", "healthData",
           "readyData", "plugins", "endpoints", "metricsAvailable",
           "problems", "insights", "uptime", "version"}

\* healthResult.data?.uptime and ?.version
OptionalOf(healthData) == IF healthData.defined THEN "present" ELSE "absent"

\* initial value of the diagnostics state
InitialDiagnostics ==
  [globalStatus |-> "down", healthStatus |-> "loading",
   readyStatus |-> "loading", healthData |-> NoData, readyData |-> NoReady,
   plugins |-> <<>>, endpoints |-> <<>>, metricsAvailable |-> FALSE,
   problems |-> <<>>, insights |-> <<>>,
   uptime |-> "absent", version |-> "absent"]

\* locals of a fetchDiagnostics invocation that has not started or is over;
\* end records whether it left through the try ("success") or the catch.
\* healthResult, readyResult, pluginsResult and listing keep, while the
\* invocation runs, the status the client call returned, how the listing
\* ended and the plugin array it returned.
NoCycle(pc) ==
  [pc |-> pc, net |-> "live", healthStatus |-> "loading",
   healthData |-> NoData, readyStatus |-> "loading", readyData |-> NoReady,
   globalStatus |-> "down", plugins |-> <<>>, insights |-> <<>>,
   metricsAvailable |-> FALSE, end |-> "none",
   healthResult |-> "none", readyResult |-> "none", pluginsResult |-> "none",
   listing |-> <<>>]

InFlight(c) == cycles[c].pc \notin {"idle", "done"}
Finished(c) == cycles[c].pc = "done"
InFlightCycles == {c \in CycleIds : InFlight(c)}

\* no call of detectProblems on its own
NoDetectIn ==
  [healthData |-> NoData, readyData |-> NoReady, listing |-> <<>>,
   plugins |-> <<>>, endpoints |-> <<>>]
NoDetectOut == [called |-> FALSE, threw |-> FALSE, problems |-> <<>>]

\* no call of checkEndpoint on its own
NoProbeIn == [name |-> "Root", net |-> ProbeResponse(200, 0)]
NoProbeOut == [called |-> FALSE, result |-> checkEndpoint("Root", ProbeResponse(200, 0))]

\* the page before its first commit
PageInit ==
  /\ mounted = FALSE
  /\ diagnostics = InitialDiagnostics
  /\ loading = TRUE
  /\ lastChecked = 0
  /\ refreshKey = 0
  /\ autoRefresh = TRUE
  /\ timerActive = FALSE
  /\ intervals = 0
  /\ cycles = [c \in CycleIds |-> NoCycle("idle")]
  /\ started = 0
  /\ origin = [f \in Fields |-> 0]
  /\ event = "init"

Init ==
  /\ PageInit
  /\ detectIn = NoDetectIn
  /\ detectOut = NoDetectOut
  /\ probeIn = NoProbeIn
  /\ probeOut = NoProbeOut

\* --------------------------------------------------------------- effects
\* The synchronous head of fetchDiagnostics, run by the effect keyed on
\* fetchDiagnostics (hence on refreshKey): setLoading(true), then the
\* health request is issued and the invocation suspends.  healthNet is
\* "live" if the request will settle and "silent" if it never does.
StartCycle(healthNet) ==
  /\ started < MaxCycles
  /\ started' = started + 1
  /\ cycles' = [cycles EXCEPT ![started + 1] =
                  [NoCycle("health") EXCEPT !.net = healthNet]]
  /\ loading' = TRUE

\* IntervalAfterEffect without the early return on !autoRefresh
IntervalAfterEffect_NoEarlyReturn(auto) == TRUE

\* IntervalAfterEffect with the early return taken when autoRefresh is true
IntervalAfterEffect_Inverted(auto) == ~auto

\* The auto-refresh effect for a value of autoRefresh: its cleanup clears
\* the previous interval, its body creates one unless autoRefresh is false.
IntervalAfterEffect(auto) == auto

\* a cleanup that does not clear the interval
IntervalCleanup_Leaks(n, registered) == n

\* the cleanup the effect returned, if its last run returned one:
\* clearInterval(interval)
IntervalCleanup(n, registered) == IF registered THEN n - 1 ELSE n

\* the body of the effect: setInterval unless autoRefresh is false
IntervalBody(n, auto) == IF auto THEN n + 1 ELSE n

\* ------------------------------------------------------- handlers (UI)
\* First commit: both effects run.
Mount(healthNet) ==
  /\ ~mounted /\ started = 0 /\ event = "init"
  /\ mounted' = TRUE
  /\ StartCycle(healthNet)
  /\ timerActive' = IntervalAfterEffect(autoRefresh)
  /\ intervals' = IntervalBody(intervals, autoRefresh)
  /\ event' = "mount"
  /\ UNCHANGED << detectIn, detectOut, probeIn, probeOut >>
  /\ UNCHANGED << diagnostics, lastChecked, refreshKey, autoRefresh, origin >>

\* The interval callback: setRefreshKey(prev => prev + 1); the re-render
\* gives fetchDiagnostics a new identity and its effect calls it.
TickEnabled == mounted /\ timerActive

Tick(healthNet) ==
  /\ TickEnabled
  /\ refreshKey' = refreshKey + 1
  /\ StartCycle(healthNet)
  /\ event' = "tick"
  /\ UNCHANGED << detectIn, detectOut, probeIn, probeOut >>
  /\ UNCHANGED << mounted, diagnostics, lastChecked, autoRefresh,
                  timerActive, intervals, origin >>

\* The Refresh button: disabled={loading}, same onClick as the interval.
RefreshEnabled == mounted /\ ~loading

Refresh(healthNet) ==
  /\ RefreshEnabled
  /\ refreshKey' = refreshKey + 1
  /\ StartCycle(healthNet)
  /\ event' = "refresh"
  /\ UNCHANGED << detectIn, detectOut, probeIn, probeOut >>
  /\ UNCHANGED << mounted, diagnostics, lastChecked, autoRefresh,
                  timerActive, intervals, origin >>

\* The auto-refresh button: setAutoRefresh(!autoRefresh); the effect keyed
\* on autoRefresh is cleaned up and run again.
ToggleAutoRefresh ==
  /\ mounted
  /\ autoRefresh' = ~autoRefresh
  /\ timerActive' = IntervalAfterEffect(~autoRefresh)
  /\ intervals' = IntervalBody(IntervalCleanup(intervals, timerActive),
                               ~autoRefresh)
  /\ event' = IF InFlightCycles # {} THEN "toggle-busy" ELSE "toggle"
  /\ UNCHANGED << detectIn, detectOut, probeIn, probeOut >>
  /\ UNCHANGED << mounted, diagnostics, loading, lastChecked, refreshKey,
                  cycles, started, origin >>

\* Unmount: effect cleanups run (clearInterval); suspended invocations of
\* fetchDiagnostics are not cancelled, their state updates are dropped.
Unmount ==
  /\ mounted
  /\ mounted' = FALSE
  /\ timerActive' = FALSE
  /\ intervals' = IntervalCleanup(intervals, timerActive)
  /\ event' = "unmount"
  /\ UNCHANGED << detectIn, detectOut, probeIn, probeOut >>
  /\ UNCHANGED << diagnostics, loading, lastChecked, refreshKey,
                  autoRefresh, cycles, started, origin >>

\* ------------------------------------------------ fetchDiagnostics, pure
\* HealthStatusOf that treats only a transport failure as an error
HealthStatusOf_ErrorOnly(status) ==
  IF status = "error" THEN "error" ELSE "success"

\* step 1: healthResult.status -> CheckStatus
HealthStatusOf(status) == IF status = "healthy" THEN "success" ELSE "error"

\* step 2: readyResult.status -> CheckStatus
ReadyStatusOf(status) ==
  IF status = "ready" THEN "success"
  ELSE IF status = "not_ready" THEN "warning" ELSE "error"

\* GlobalStatusOf with readiness consulted before health
GlobalStatusOf_ReadyFirst(healthStatus, readyStatus) ==
  IF readyStatus = "error" \/ readyStatus = "warning" THEN "degraded"
  ELSE IF healthStatus = "error" THEN "down"
  ELSE "operational"

\* step 3: global status
GlobalStatusOf(healthStatus, readyStatus) ==
  IF healthStatus = "error" THEN "down"
  ELSE IF readyStatus = "error" \/ readyStatus = "warning" THEN "degraded"
  ELSE "operational"

HealthInsights(healthStatus, healthData) ==
  IF healthStatus = "error" THEN << "health-failing" >>
  ELSE IF healthData.defined THEN << "health-passed" >> ELSE <<>>

ReadyInsights(readyStatus) ==
  IF readyStatus = "error" THEN << "ready-unreachable" >>
  ELSE IF readyStatus = "warning" THEN << "not-ready" >>
  ELSE << "ready-ok" >>

\* step 4: one PluginStatus per listed plugin
PluginStatusOf(p) ==
  [name      |-> OrElse(p.name, OrElse(p.id, JsString(<<"U","n","k","n","o","w","n">>))),
   available |-> TRUE,
   status    |-> IF p.health = "absent" THEN "healthy" ELSE p.health]

\* the forEach stops at the first element whose fields cannot be read
RECURSIVE PushStatuses(_, _)
PushStatuses(list, k) ==
  IF k > Len(list) \/ list[k].isNull THEN <<>>
  ELSE << PluginStatusOf(list[k]) >> \o PushStatuses(list, k + 1)

ForEachThrows(list) == \E k \in 1..Len(list) : list[k].isNull

\* pluginStatuses after the try block of step 4
PluginStatusesOf(outcome) ==
  IF ~outcome.throws /\ outcome.status = "available" /\ outcome.hasPlugins
    THEN PushStatuses(outcome.plugins, 1)
    ELSE <<>>

\* how await checkPlugins() ended: it threw, it resolved with a status
\* other than available, without a plugin array, or with a listing
OutcomeKind(outcome) ==
  IF outcome.throws THEN "threw"
  ELSE IF outcome.status # "available" THEN "not-available"
  ELSE IF ~outcome.hasPlugins THEN "no-array"
  ELSE "listed"

\* the catch of step 4 ran
PluginsCaught(outcome) ==
  \/ outcome.throws
  \/ outcome.status = "available" /\ outcome.hasPlugins
       /\ ForEachThrows(outcome.plugins)

PluginInsights(outcome) ==
  IF PluginsCaught(outcome) THEN << "plugins-unavailable" >> ELSE <<>>

\* endpointsToCheck that probes /metrics whatever checkMetrics said
endpointsToCheck_Always(metricsAvailable) ==
  << "Root", "Health", "Ready", "Metrics" >>

\* step 5: endpointsToCheck
endpointsToCheck(metricsAvailable) ==
  << "Root", "Health", "Ready" >>
    \o (IF metricsAvailable THEN << "Metrics" >> ELSE <<>>)

EndpointNames == {"Root", "Health", "Ready", "Metrics"}

\* Promise.all(endpointsToCheck.map(checkEndpoint))
endpointChecks(metricsAvailable, nets) ==
  LET eps == endpointsToCheck(metricsAvailable) IN
  [i \in 1..Len(eps) |-> checkEndpoint(eps[i], nets[eps[i]])]

\* the object passed to setDiagnostics on the success path
SuccessSnapshot(cy, checks) ==
  [globalStatus |-> cy.globalStatus, healthStatus |-> cy.healthStatus,
   readyStatus |-> cy.readyStatus, healthData |-> cy.healthData,
   readyData |-> cy.readyData, plugins |-> cy.plugins,
   endpoints |-> checks, metricsAvailable |-> cy.metricsAvailable,
   problems |-> detectProblems(cy.healthData, cy.readyData, cy.plugins, checks),
   insights |-> cy.insights,
   uptime |-> OptionalOf(cy.healthData), version |-> OptionalOf(cy.healthData)]

\* CatchSnapshot that appends the synthetic problem to the previous list
CatchSnapshot_Appends(prev) ==
  [prev EXCEPT !.globalStatus = "down", !.healthStatus = "error",
               !.readyStatus = "error",
               !.problems = @ \o << ConnectionError >>]

\* the updater passed to setDiagnostics in the top-level catch
CatchSnapshot(prev) ==
  [prev EXCEPT !.globalStatus = "down", !.healthStatus = "error",
               !.readyStatus = "error", !.problems = << ConnectionError >>]

CatchFields == {"globalStatus", "healthStatus", "readyStatus", "problems"}

\* --------------------------------------- fetchDiagnostics, continuations
\* Each action is the code between two awaits of invocation c.

\* the client calls an invocation has issued when it stands at pc: each
\* call is made by the statement that awaits it, after the one before it
\* has settled
TopLevelFetches == {"healthCheck", "readyCheck", "checkPlugins", "checkMetrics"}

Issued(pc) ==
  CASE pc = "idle"    -> {}
    [] pc = "health"  -> {"healthCheck"}
    [] pc = "ready"   -> {"healthCheck", "readyCheck"}
    [] pc = "plugins" -> {"healthCheck", "readyCheck", "checkPlugins"}
    [] OTHER          -> TopLevelFetches

\* setLastChecked placed in the finally block
LastCheckedAfter_Finally(threw, prev, c) == c

\* lastChecked after the try/catch of invocation c: setLastChecked(new
\* Date()) is the last statement of the try
LastCheckedAfter(threw, prev, c) == IF threw THEN prev ELSE c

\* await healthCheck() settles
HealthReturns(c, net) ==
  /\ cycles[c].pc = "health" /\ cycles[c].net = "live"
  /\ LET healthResult == healthCheck(net)
         healthStatus == HealthStatusOf(healthResult.status)
         healthData   == HealthResultData(healthResult)
     IN cycles' = [cycles EXCEPT ![c] =
                     [@ EXCEPT !.pc = "ready",
                               !.healthResult = healthResult.status,
                               !.healthStatus = healthStatus,
                               !.healthData = healthData,
                               !.insights = HealthInsights(healthStatus, healthData)]]
  /\ UNCHANGED << detectIn, detectOut, probeIn, probeOut >>
  /\ UNCHANGED << mounted, diagnostics, loading, lastChecked, refreshKey,
                  autoRefresh, timerActive, intervals, started, origin,
                  event >>

\* await readyCheck() settles
ReadyReturns(c, net) ==
  /\ cycles[c].pc = "ready"
  /\ LET readyResult == readyCheck(net)
         readyStatus == ReadyStatusOf(readyResult.status)
     IN cycles' = [cycles EXCEPT ![c] =
                     [@ EXCEPT !.pc = "plugins",
                               !.readyResult = readyResult.status,
                               !.readyStatus = readyStatus,
                               !.readyData = readyResult.data,
                               !.insights = @ \o ReadyInsights(readyStatus),
                               !.globalStatus =
                                  GlobalStatusOf(cycles[c].healthStatus, readyStatus)]]
  /\ UNCHANGED << detectIn, detectOut, probeIn, probeOut >>
  /\ UNCHANGED << mounted, diagnostics, loading, lastChecked, refreshKey,
                  autoRefresh, timerActive, intervals, started, origin,
                  event >>

\* await checkPlugins() settles
PluginsReturns(c, outcome) ==
  /\ cycles[c].pc = "plugins"
  /\ cycles' = [cycles EXCEPT ![c] =
                  [@ EXCEPT !.pc = "metrics",
                            !.pluginsResult = OutcomeKind(outcome),
                            !.listing = outcome.plugins,
                            !.plugins = PluginStatusesOf(outcome),
                            !.insights = @ \o PluginInsights(outcome)]]
  /\ UNCHANGED << detectIn, detectOut, probeIn, probeOut >>
  /\ UNCHANGED << mounted, diagnostics, loading, lastChecked, refreshKey,
                  autoRefresh, timerActive, intervals, started, origin,
                  event >>

\* await checkMetrics() settles; the probes are issued
MetricsReturns(c, net) ==
  /\ cycles[c].pc = "metrics"
  /\ cycles' = [cycles EXCEPT ![c] =
                  [@ EXCEPT !.pc = "endpoints",
                            !.metricsAvailable = (net = "available")]]
  /\ UNCHANGED << detectIn, detectOut, probeIn, probeOut >>
  /\ UNCHANGED << mounted, diagnostics, loading, lastChecked, refreshKey,
                  autoRefresh, timerActive, intervals, started, origin,
                  event >>

\* await Promise.all(...) settles: detectProblems, setDiagnostics and
\* setLastChecked, or the catch; then finally.  State updates of an
\* unmounted component are dropped.
EndpointsReturn(c, nets) ==
  /\ cycles[c].pc = "endpoints"
  /\ LET cy     == cycles[c]
         checks == endpointChecks(cy.metricsAvailable, nets)
     IN IF ~mounted
          THEN UNCHANGED << diagnostics, lastChecked, origin, loading >>
          ELSE /\ loading' = FALSE
               /\ IF DetectThrows(cy.plugins)
                    THEN /\ diagnostics' = CatchSnapshot(diagnostics)
                         /\ origin' = [f \in Fields |->
                                         IF f \in CatchFields THEN c ELSE origin[f]]
                    ELSE /\ diagnostics' = SuccessSnapshot(cy, checks)
                         /\ origin' = [f \in Fields |-> c]
               /\ lastChecked' =
                    LastCheckedAfter(DetectThrows(cy.plugins), lastChecked, c)
  /\ cycles' = [cycles EXCEPT ![c] =
                  [NoCycle("done") EXCEPT !.end =
                     IF DetectThrows(cycles[c].plugins) THEN "caught" ELSE "success"]]
  /\ UNCHANGED << detectIn, detectOut, probeIn, probeOut >>
  /\ UNCHANGED << mounted, refreshKey, autoRefresh, timerActive, intervals,
                  started, event >>

\* ------------------------------------------------------------- inputs
\* Whether the health request of a new invocation ever settles.
HealthFates == {"live", "silent"}

P_store      == RawPlugin(JsString(W_store \o W_dash \o W_postgres), JsUndefined, "healthy")
P_supervisor == RawPlugin(JsString(W_supervisor \o W_dash \o W_postgres), JsUndefined, "absent")
P_memory     == RawPlugin(JsString(W_memory \o W_dash \o W_stm \o W_dash \o W_db), JsUndefined, "absent")
\* a listing entry whose name is a number
P_numeric    == RawPlugin(JsNumber, JsUndefined, "absent")

FullListing == << P_store, P_supervisor, P_memory >>

AllFast == [n \in EndpointNames |-> ProbeResponse(200, 120)]

\* What the API does in the polling specification: enough to take every
\* branch of the scheduler and both exits of fetchDiagnostics.
PollHealthNets == {"ok", "neterr"}
PollReadyNets == {"ready", "neterr"}
PollPluginOutcomes == { PluginsAvailable(FullListing),
                        PluginsAvailable(<< P_numeric >>) }
PollMetricsNets == {"available"}
PollProbeNets == { AllFast }

\* ----------------------------------------------------------------- Next
Next ==
  \/ \E f \in HealthFates : Mount(f)
  \/ \E f \in HealthFates : Tick(f)
  \/ \E f \in HealthFates : Refresh(f)
  \/ ToggleAutoRefresh
  \/ Unmount
  \/ \E c \in CycleIds, n \in PollHealthNets : HealthReturns(c, n)
  \/ \E c \in CycleIds, n \in PollReadyNets : ReadyReturns(c, n)
  \/ \E c \in CycleIds, o \in PollPluginOutcomes : PluginsReturns(c, o)
  \/ \E c \in CycleIds, n \in PollMetricsNets : MetricsReturns(c, n)
  \/ \E c \in CycleIds, n \in PollProbeNets : EndpointsReturn(c, n)

Spec == Init /\ [][Next]_vars

\* ------------------------------------------- one cycle, every API answer
P_storeOnly  == RawPlugin(JsString(W_store), JsUndefined, "absent")
P_StoreCaps  == RawPlugin(JsString(W_StoreCap \o W_dash \o W_PostgresCap), JsUndefined, "degraded")
P_idOnly     == RawPlugin(JsUndefined, JsString(W_memory \o W_dash \o W_stm), "absent")
P_cache      == RawPlugin(JsString(W_cache), JsUndefined, "absent")

CyclePluginOutcomes ==
  { PluginsThrow, PluginsUnavailable, PluginsNoArray,
    PluginsAvailable(<<>>),
    PluginsAvailable(FullListing),
    PluginsAvailable(<< P_storeOnly >>),
    PluginsAvailable(<< P_StoreCaps, P_supervisor, P_idOnly >>),
    PluginsAvailable(<< P_cache >>),
    PluginsAvailable(<< P_numeric >>),
    PluginsAvailable(<< P_store, NullPlugin, P_memory >>) }

ProbeOptions ==
  { ProbeResponse(200, 120), ProbeResponse(200, 1500),
    ProbeResponse(500, 120), ProbeSilent }

CycleProbeNets == [EndpointNames -> ProbeOptions]

\* The first cycle alone, from mount to its end, under every answer of
\* the API.
CycleNext ==
  \/ \E f \in HealthFates : Mount(f)
  \/ \E c \in CycleIds, n \in HealthNets : HealthReturns(c, n)
  \/ \E c \in CycleIds, n \in ReadyNets : ReadyReturns(c, n)
  \/ \E c \in CycleIds, o \in CyclePluginOutcomes : PluginsReturns(c, o)
  \/ \E c \in CycleIds, n \in MetricsNets : MetricsReturns(c, n)
  \/ \E c \in CycleIds, n \in CycleProbeNets : EndpointsReturn(c, n)

CycleSpec == Init /\ [][CycleNext]_vars

\* ------------------------------------------------------------ fairness
\* A continuation runs once its promise has settled.  The readiness,
\* plugin, metrics and probe requests are bounded by their timeouts; the
\* health request has none, so its continuation is only taken when
\* cycles[c].net = "live" (see HealthReturns).
FairSpec ==
  /\ Spec
  /\ \A c \in CycleIds :
       /\ WF_vars(\E n \in PollHealthNets : HealthReturns(c, n))
       /\ WF_vars(\E n \in PollReadyNets : ReadyReturns(c, n))
       /\ WF_vars(\E o \in PollPluginOutcomes : PluginsReturns(c, o))
       /\ WF_vars(\E n \in PollMetricsNets : MetricsReturns(c, n))
       /\ WF_vars(\E n \in PollProbeNets : EndpointsReturn(c, n))

\* ------------------------------------------- detectProblems on its own
\* /health payloads handed to detectProblems
DetectHealthData ==
  { NoData,
    HealthPayload("healthy", "true", "true"),
    HealthPayload("healthy", "false", "true"),
    HealthPayload("healthy", "true", "false"),
    HealthPayload("healthy", "absent", "absent"),
    HealthPayload("degraded", "true", "true"),
    HealthPayload("degraded", "false", "false") }

\* /ready payloads: none, ready true / false / missing / not a boolean
DetectReadyData ==
  { NoReady, ReadyPayload("true"), ReadyPayload("false"),
    ReadyPayload("absent"), ReadyPayload("other") }

P_dbPostgres == RawPlugin(JsString(W_database \o W_dash \o W_postgres), JsUndefined, "absent")
P_cacheIdStore == RawPlugin(JsString(W_cache), JsString(W_store), "absent")

\* plugin listings as fetched
DetectListings ==
  { <<>>,
    FullListing,
    << P_storeOnly >>,
    << P_StoreCaps, P_supervisor, P_idOnly >>,
    << P_dbPostgres, P_supervisor >>,
    << P_cacheIdStore, P_memory >>,
    << P_cache >>,
    << P_numeric >> }

\* detectProblems is about to be called with the statuses built from a
\* listing and the results of the probes
DetectInit ==
  /\ PageInit
  /\ detectOut = NoDetectOut
  /\ probeIn = NoProbeIn
  /\ probeOut = NoProbeOut
  /\ \E h \in DetectHealthData, r \in DetectReadyData, l \in DetectListings,
        m \in BOOLEAN, n \in CycleProbeNets :
       detectIn = [healthData |-> h, readyData |-> r, listing |-> l,
                   plugins |-> PushStatuses(l, 1),
                   endpoints |-> endpointChecks(m, n)]

\* the call: either the TypeError of toLowerCase or the returned list
Detect ==
  /\ ~detectOut.called
  /\ detectOut' =
       [called |-> TRUE,
        threw |-> DetectThrows(detectIn.plugins),
        problems |-> IF DetectThrows(detectIn.plugins) THEN <<>>
                     ELSE detectProblems(detectIn.healthData,
                                         detectIn.readyData,
                                         detectIn.plugins,
                                         detectIn.endpoints)]
  /\ UNCHANGED << mounted, diagnostics, loading, lastChecked, refreshKey,
                  autoRefresh, timerActive, cycles, started, origin, event,
                  detectIn, probeIn, probeOut, intervals >>

DetectNext == Detect

DetectSpec == DetectInit /\ [][DetectNext]_vars

\* --------------------------------------------- checkEndpoint on its own
ProbeCodes == {199, 200, 204, 299, 300, 404, 500}
ProbeLatencies == {0, 120, 1500}

\* what the network (or the code ahead of the fetch) does with one probe
ProbeNets ==
  { ProbeResponse(code, ms) : code \in ProbeCodes, ms \in ProbeLatencies }
    \cup { ProbeNetError(ms) : ms \in ProbeLatencies }
    \cup { ProbeThrowsValue(ms) : ms \in ProbeLatencies }
    \cup { ProbeSilent }

ProbeInit ==
  /\ PageInit
  /\ detectIn = NoDetectIn
  /\ detectOut = NoDetectOut
  /\ probeOut = NoProbeOut
  /\ \E name \in EndpointNames, net \in ProbeNets :
       probeIn = [name |-> name, net |-> net]

\* the call
Probe ==
  /\ ~probeOut.called
  /\ probeOut' = [called |-> TRUE,
                  result |-> checkEndpoint(probeIn.name, probeIn.net)]
  /\ UNCHANGED << mounted, diagnostics, loading, lastChecked, refreshKey,
                  autoRefresh, timerActive, cycles, started, origin, event,
                  detectIn, detectOut, probeIn, intervals >>

ProbeNext == Probe

ProbeSpec == ProbeInit /\ [][ProbeNext]_vars

\* =============================================================== claims
\* a cycle has written the diagnostics state
Published == origin["globalStatus"] # 0

\* in this step cycle c runs its last continuation
Ends(c) == InFlight(c) /\ cycles'[c].pc = "done"

\* C1: at no time are two fetchDiagnostics invocations in flight together.
C1_NoOverlap == Cardinality(InFlightCycles) <= 1

\* C2: when a cycle started earlier and a cycle started later have both
\* finished, the diagnostics state was not last written by the earlier one.
C2_SnapshotOrdering ==
  \A a \in CycleIds : \A b \in CycleIds :
    (mounted /\ a < b /\ Finished(a) /\ Finished(b))
      => origin["globalStatus"] >= b

\* C3: in every published snapshot, healthStatus = error implies
\* globalStatus = down, whatever readyStatus is.
C3_Precedence ==
  diagnostics.healthStatus = "error" => diagnostics.globalStatus = "down"

\* C3 witnesses: success-path snapshots with a failing health check and a
\* readiness that succeeded
C3_Witness ==
  /\ Published
  /\ \E c \in CycleIds : cycles[c].end = "success"
  /\ diagnostics.healthStatus = "error"
  /\ diagnostics.readyStatus = "success"

CriticalCoreIds == {"health-failure", "readiness-failure", "database-connection"}

\* C4: a snapshot with healthStatus = success and readyStatus = success
\* has globalStatus = operational and no critical problem of rules 1-3.
C4_BothSucceed ==
  (Published /\ diagnostics.healthStatus = "success"
             /\ diagnostics.readyStatus = "success")
    => /\ diagnostics.globalStatus = "operational"
       /\ \A i \in 1..Len(diagnostics.problems) :
            ~(/\ diagnostics.problems[i].id \in CriticalCoreIds
              /\ diagnostics.problems[i].severity = "critical")

\* C5: no field of the diagnostics state was written by a cycle other
\* than the one that published last.
C5_NoStaleMixing ==
  \A f \in Fields : origin[f] # 0 => origin[f] = origin["globalStatus"]

\* C6: a cycle that leaves through the top-level catch publishes
\* globalStatus = down with exactly the one connection-error problem,
\* reaches its end, and sets loading to false.
C6_CatchPolicy ==
  [][\A c \in CycleIds :
       (mounted /\ cycles[c].end = "none" /\ cycles'[c].end = "caught")
         => /\ diagnostics'.globalStatus = "down"
            /\ diagnostics'.problems = << ConnectionError >>
            /\ diagnostics'.problems[1].severity = "critical"
            /\ cycles'[c].pc = "done"
            /\ loading' = FALSE]_vars

C6_Witness ==
  /\ \E c \in CycleIds : cycles[c].end = "caught"
  /\ mounted /\ ~loading
  /\ diagnostics.problems = << ConnectionError >>

\* C7: a cycle whose health request never receives a response still
\* reaches its end (as long as the page stays mounted).
C7_HealthTimeoutTerminates ==
  \A c \in CycleIds :
    (mounted /\ cycles[c].pc = "health" /\ cycles[c].net = "silent")
      ~> (cycles[c].pc = "done" \/ ~mounted)

\* C8: mounting starts exactly one cycle; a tick happens only while
\* autoRefresh is true and starts exactly one cycle; cycles start in no
\* other way than mount, tick or refresh; while mounted the interval
\* exists exactly when autoRefresh is true.
C8_Scheduling ==
  /\ [](mounted => (timerActive <=> autoRefresh))
  /\ [][/\ (~mounted /\ mounted') => (started = 0 /\ started' = 1)
        /\ (refreshKey' # refreshKey /\ event' = "tick")
             => (autoRefresh /\ started' = started + 1
                             /\ refreshKey' = refreshKey + 1)
        /\ (started' # started)
             => (started' = started + 1
                 /\ ((~mounted /\ mounted') \/ refreshKey' = refreshKey + 1))]_vars

C8_Witness ==
  /\ event = "tick" /\ autoRefresh /\ started = 2 /\ refreshKey = 1

\* C9: turning autoRefresh off removes the interval and leaves every
\* in-flight cycle and the diagnostics untouched; while it is off no tick
\* starts a cycle; a cycle that ends while the page is mounted publishes.
C9_ToggleOff ==
  /\ [](~autoRefresh => ~timerActive)
  /\ [][/\ (autoRefresh /\ ~autoRefresh')
             => (~timerActive' /\ cycles' = cycles
                 /\ diagnostics' = diagnostics /\ loading' = loading)
        /\ (~autoRefresh /\ started' # started) => event' = "refresh"
        /\ \A c \in CycleIds :
             (Ends(c) /\ mounted) => origin'["globalStatus"] = c]_vars

\* autoRefresh went off while a cycle was in flight, and that cycle has
\* since published
C9_Witness ==
  /\ ~autoRefresh /\ ~timerActive /\ event = "toggle-busy" /\ mounted
  /\ started = 1 /\ Finished(1) /\ origin["globalStatus"] = 1
  /\ loading = FALSE

\* C10: a tick can start a cycle exactly when a manual refresh is accepted.
C10_RefreshEquivalentToTick == TickEnabled <=> RefreshEnabled

\* ------------------------------------------ claims about detectProblems
\* detectProblems was called and returned its list
Returned == detectOut.called /\ ~detectOut.threw

\* positions of the problems with a given id in the returned list
IdxOf(id) ==
  { i \in 1..Len(detectOut.problems) : detectOut.problems[i].id = id }

Emitted(id) == IdxOf(id) # {}

\* the one problem with that id (used where Emitted(id) holds)
TheProblem(id) == detectOut.problems[CHOOSE i \in IdxOf(id) : TRUE]

\* two characters that differ at most in case
SameLetter(a, b) ==
  \/ a = b
  \/ \E i \in 1..26 : {a, b} = {UpperChars[i], LowerChars[i]}

\* w occurs in s as a contiguous substring, letter case ignored
ContainsCI(s, w) ==
  \E i \in 1..(Len(s) - Len(w) + 1) :
    \A k \in 1..Len(w) : SameLetter(s[i + k - 1], w[k])

Required == {"store", "supervisor", "memory"}

RequiredWord(r) ==
  CASE r = "store"      -> W_store
    [] r = "supervisor" -> W_supervisor
    [] OTHER            -> W_memory

\* the returned list does not name r among the missing plugins
ReportedPresent(r) ==
  \A i \in IdxOf("missing-plugins") :
    \A k \in 1..Len(detectOut.problems[i].names) :
      detectOut.problems[i].names[k] # r

\* the identifier the page keeps for a fetched plugin: its name, or its id
\* when the name is empty
UsedIdentifier(p) ==
  IF p.name.t = "string" /\ Len(p.name.s) > 0 THEN p.name.s
  ELSE IF p.id.t = "string" /\ Len(p.id.s) > 0 THEN p.id.s
  ELSE <<"U","n","k","n","o","w","n">>

AcceptedWords(r) ==
  CASE r = "store"      -> { W_store, W_database \o W_dash \o W_postgres }
    [] r = "supervisor" -> { W_supervisor }
    [] OTHER            -> { W_memory }

PresentInListing(r, listing) ==
  \E i \in 1..Len(listing) : \E w \in AcceptedWords(r) :
    ContainsCI(UsedIdentifier(listing[i]), w)

AllProbesFast ==
  /\ Len(diagnostics.endpoints) > 0
  /\ \A i \in 1..Len(diagnostics.endpoints) :
       /\ diagnostics.endpoints[i].status = "success"
       /\ diagnostics.endpoints[i].latency < 200

\* the three required plugins were listed
AllPluginsListed == diagnostics.plugins = PushStatuses(FullListing, 1)

\* C13: a snapshot published after health answered healthy, ready answered
\* ready = true, the three required plugins were listed and every probe
\* succeeded in under 200 ms has globalStatus = operational and no problem.
C13_AllGood ==
  (/\ Published
   /\ diagnostics.healthStatus = "success"
   /\ diagnostics.readyStatus = "success"
   /\ diagnostics.readyData = ReadyPayload("true")
   /\ AllPluginsListed
   /\ AllProbesFast)
    => /\ diagnostics.globalStatus = "operational"
       /\ diagnostics.problems = <<>>

\* C14: a snapshot published after health answered healthy, ready answered
\* ready = false, the three required plugins were listed and every probe
\* was fast has globalStatus = degraded and exactly one problem,
\* readiness-failure of severity warning.
C14_NotReady ==
  (/\ Published
   /\ diagnostics.healthStatus = "success"
   /\ diagnostics.readyData = ReadyPayload("false")
   /\ AllPluginsListed
   /\ AllProbesFast)
    => /\ diagnostics.globalStatus = "degraded"
       /\ Len(diagnostics.problems) = 1
       /\ diagnostics.problems[1].id = "readiness-failure"
       /\ diagnostics.problems[1].severity = "warning"

\* ------------------------------------------------- rules 5, 6, 7 and 2
\* C15: when the listing is exactly one plugin named "store", the returned
\* list holds exactly one missing-plugins problem; it is critical, names
\* supervisor and memory (not store) as missing and lists "store" as the
\* only found plugin.
C15_StoreOnly ==
  (Returned /\ detectIn.listing = << P_storeOnly >>)
    => /\ Cardinality(IdxOf("missing-plugins")) = 1
       /\ TheProblem("missing-plugins").severity = "critical"
       /\ TheProblem("missing-plugins").names = << "supervisor", "memory" >>
       /\ TheProblem("missing-plugins").found = << W_store >>

\* C15 witness: detectProblems returned for the listing ["store"] and
\* reported missing plugins
C15_Witness ==
  /\ Returned
  /\ detectIn.listing = << P_storeOnly >>
  /\ Emitted("missing-plugins")

\* the probed endpoints with status error
FailedNames ==
  { detectIn.endpoints[i].name :
      i \in { j \in 1..Len(detectIn.endpoints) :
                detectIn.endpoints[j].status = "error" } }

\* the names a problem carries, as a set
NamedBy(id) ==
  { TheProblem(id).names[k] : k \in 1..Len(TheProblem(id).names) }

\* C16: endpoint-failures is emitted exactly when some probed endpoint has
\* status error; it is critical exactly when every probed endpoint failed
\* and a warning otherwise; it names exactly the failed endpoints.
C16_EndpointFailures ==
  Returned =>
    /\ Emitted("endpoint-failures") <=> FailedNames # {}
    /\ Emitted("endpoint-failures") =>
         /\ Cardinality(IdxOf("endpoint-failures")) = 1
         /\ TheProblem("endpoint-failures").severity =
              (IF Cardinality(FailedNames) = Len(detectIn.endpoints)
                 THEN "critical" ELSE "warning")
         /\ NamedBy("endpoint-failures") = FailedNames
         /\ Len(TheProblem("endpoint-failures").names)
              = Cardinality(FailedNames)

\* C16 witness: three of four probed endpoints failed and the problem is a
\* warning
C16_Witness ==
  /\ Returned
  /\ Len(detectIn.endpoints) = 4
  /\ Cardinality(FailedNames) = 3
  /\ Emitted("endpoint-failures")
  /\ TheProblem("endpoint-failures").severity = "warning"

\* C17: no endpoint with status error is listed by the high-latency
\* problem.
C17_SlowOnlyFromSuccess ==
  (Returned /\ Emitted("high-latency"))
    => NamedBy("high-latency") \cap FailedNames = {}

\* C18: missing-plugins is emitted exactly when the plugin list is not
\* empty and some required plugin is absent from it.
C18_MissingPlugins ==
  Returned =>
    (Emitted("missing-plugins")
       <=> /\ Len(detectIn.plugins) > 0
           /\ \E r \in Required : ~PresentInListing(r, detectIn.listing))

\* C18 witness: the plugin list was empty and no missing-plugins problem
\* was returned
C18_Witness ==
  /\ Returned
  /\ detectIn.plugins = <<>>
  /\ ~Emitted("missing-plugins")

\* C19: readiness-failure is emitted exactly when the ready payload is
\* missing or its ready field is not true; it is a warning exactly when
\* ready is false and critical otherwise.
C19_ReadinessFailure ==
  Returned =>
    /\ Emitted("readiness-failure")
         <=> (detectIn.readyData = NoReady
                \/ detectIn.readyData.ready # "true")
    /\ Emitted("readiness-failure") =>
         /\ Cardinality(IdxOf("readiness-failure")) = 1
         /\ TheProblem("readiness-failure").severity =
              (IF detectIn.readyData = ReadyPayload("false")
                 THEN "warning" ELSE "critical")

\* C19 witness: a payload whose ready field is missing gave a critical
\* readiness-failure
C19_Witness ==
  /\ Returned
  /\ detectIn.readyData = ReadyPayload("absent")
  /\ Emitted("readiness-failure")
  /\ TheProblem("readiness-failure").severity = "critical"

\* ------------------------------------------------------- rule catalogue
\* position of an id in the catalogue
Rank(id) ==
  CASE id = "health-failure"      -> 1
    [] id = "readiness-failure"   -> 2
    [] id = "database-connection" -> 3
    [] id = "redis-connection"    -> 4
    [] id = "missing-plugins"     -> 5
    [] id = "endpoint-failures"   -> 6
    [] id = "high-latency"        -> 7
    [] OTHER                      -> 0

\* the condition of each rule, stated on the arguments
OwnPredicate(id) ==
  CASE id = "health-failure" ->
         ~detectIn.healthData.defined \/ detectIn.healthData.status # "healthy"
    [] id = "readiness-failure" ->
         ~detectIn.readyData.defined \/ detectIn.readyData.ready # "true"
    [] id = "database-connection" ->
         detectIn.healthData.defined /\ detectIn.healthData.database = "false"
    [] id = "redis-connection" ->
         detectIn.healthData.defined /\ detectIn.healthData.redis = "false"
    [] id = "missing-plugins" ->
         /\ Len(detectIn.plugins) > 0
         /\ \E r \in Required : ~PresentInListing(r, detectIn.listing)
    [] id = "endpoint-failures" ->
         \E i \in 1..Len(detectIn.endpoints) :
           detectIn.endpoints[i].status = "error"
    [] OTHER ->
         \E i \in 1..Len(detectIn.endpoints) :
           detectIn.endpoints[i].latency > SlowLatencyMs

CatalogueIds ==
  { "health-failure", "readiness-failure", "database-connection",
    "redis-connection", "missing-plugins", "endpoint-failures",
    "high-latency" }

\* C20: whenever detectProblems returns, the ids of its list appear in the
\* order of the catalogue, each at most once, and each id is present
\* exactly when its own rule's condition holds of the arguments.
C20_IndependentOrdered ==
  Returned =>
    /\ \A i \in 1..Len(detectOut.problems) :
         detectOut.problems[i].id \in CatalogueIds
    /\ \A i \in 1..Len(detectOut.problems) :
         \A j \in 1..Len(detectOut.problems) :
           i < j => Rank(detectOut.problems[i].id)
                      < Rank(detectOut.problems[j].id)
    /\ \A id \in CatalogueIds : Emitted(id) <=> OwnPredicate(id)

\* C20 witness: all seven rules fired in one call
C20_Witness ==
  /\ Returned
  /\ Len(detectOut.problems) = 7

\* C21: in every list detectProblems returns, each id in a problem's
\* related list is the id of a problem of the same list.
C21_RelatedPresent ==
  Returned =>
    \A i \in 1..Len(detectOut.problems) :
      \A k \in 1..Len(detectOut.problems[i].related) :
        Emitted(detectOut.problems[i].related[k])

\* ------------------------------------------------ steps of one cycle
\* C22: once the health call of a cycle has returned, healthStatus is
\* success exactly when it reported healthy and error otherwise; once the
\* readiness call has returned, readyStatus is success for ready, warning
\* for not_ready and error otherwise; no published snapshot has a status
\* of loading.
C22_StatusMapping ==
  /\ \A c \in CycleIds :
       cycles[c].healthResult # "none" =>
         cycles[c].healthStatus =
           (IF cycles[c].healthResult = "healthy" THEN "success" ELSE "error")
  /\ \A c \in CycleIds :
       cycles[c].readyResult # "none" =>
         cycles[c].readyStatus =
           (CASE cycles[c].readyResult = "ready"     -> "success"
              [] cycles[c].readyResult = "not_ready" -> "warning"
              [] OTHER                               -> "error")
  /\ Published =>
       /\ diagnostics.healthStatus \in {"success", "error"}
       /\ diagnostics.readyStatus \in {"success", "warning", "error"}

\* C22 witness: the health endpoint answered with a failure status and the
\* readiness call reported not_ready
C22_Witness ==
  \E c \in CycleIds :
    /\ cycles[c].healthResult = "unhealthy"
    /\ cycles[c].healthStatus = "error"
    /\ cycles[c].readyResult = "not_ready"
    /\ cycles[c].readyStatus = "warning"

\* ---------------------------------------------------- endpoint prober
\* C23: checkEndpoint returns a result whose status is success or error;
\* it is success exactly when a response with a status of 200 to 299 was
\* received; any other response gives error with the message HTTP <status>;
\* a rejected or aborted fetch gives error with the message of the error.
C23_Prober ==
  probeOut.called =>
    /\ probeOut.result.name = probeIn.name
    /\ probeOut.result.status \in {"success", "error"}
    /\ probeOut.result.status = "success"
         <=> /\ probeIn.net.kind = "response"
             /\ probeIn.net.code \in 200..299
    /\ (probeIn.net.kind = "response" /\ probeIn.net.code \notin 200..299)
         => /\ probeOut.result.error.text = "HTTP"
            /\ probeOut.result.error.code = probeIn.net.code
    /\ probeIn.net.kind \in {"reject", "silent"}
         => probeOut.result.error.text = probeIn.net.message

\* C23 witness: the probe was aborted after ProbeTimeoutMs and
\* checkEndpoint returned an error result
C23_Witness ==
  /\ probeOut.called
  /\ probeIn.net = ProbeSilent
  /\ probeOut.result.status = "error"
  /\ probeOut.result.latency = ProbeTimeoutMs

\* the step in which await checkMetrics() of cycle c settles
MetricsStep(c) == cycles[c].pc = "metrics" /\ cycles'[c].pc = "endpoints"

\* names carried by the problems of a list
ProblemNames(problems) ==
  UNION { { problems[i].names[k] : k \in 1..Len(problems[i].names) } :
            i \in 1..Len(problems) }

\* C24: the endpoints of a snapshot written by the success path are Root,
\* Health, Ready in that order, followed by Metrics exactly when
\* metricsAvailable is true in the snapshot; the step in which the metrics
\* check returns, whatever it returns, adds no insight and changes no
\* problem, and a snapshot without metrics has no problem about Metrics.
C24_ProbedEndpoints ==
  [][ /\ origin'["endpoints"] # 0 =>
           NamesOf(diagnostics'.endpoints)
             = << "Root", "Health", "Ready" >>
                 \o (IF diagnostics'.metricsAvailable
                       THEN << "Metrics" >> ELSE <<>>)
      /\ \A c \in CycleIds :
           MetricsStep(c) =>
             /\ cycles'[c].insights = cycles[c].insights
             /\ diagnostics' = diagnostics
      /\ (origin'["endpoints"] # 0 /\ ~diagnostics'.metricsAvailable) =>
           "Metrics" \notin ProblemNames(diagnostics'.problems)
    ]_vars

\* C24 witness: a success-path snapshot of a cycle whose metrics check
\* did not report available; its three probes all failed
C24_Witness ==
  /\ origin["endpoints"] # 0
  /\ ~diagnostics.metricsAvailable
  /\ Len(diagnostics.endpoints) = 3
  /\ \A i \in 1..3 : diagnostics.endpoints[i].status = "error"

\* the elements of a sequence
Range(seq) == { seq[i] : i \in 1..Len(seq) }

\* the plugin listing of cycle c could not be obtained
ListingFailed(c) ==
  cycles[c].pluginsResult \in {"threw", "not-available", "no-array"}

\* C25: whenever the plugin listing of a cycle could not be obtained (the
\* call threw, returned a status other than available, or returned no
\* plugin array), the cycle goes on with an empty plugin list and with the
\* insight that plugins are unavailable.
C25_ListingFailure ==
  \A c \in CycleIds :
    ListingFailed(c) =>
      /\ cycles[c].pc \in {"metrics", "endpoints"}
      /\ cycles[c].plugins = <<>>
      /\ "plugins-unavailable" \in Range(cycles[c].insights)

\* C26: a cycle that is awaiting one of its top-level fetches has issued
\* all four of them.
C26_FetchesConcurrent ==
  \A c \in CycleIds :
    InFlight(c) => TopLevelFetches \subseteq Issued(cycles[c].pc)

\* a PluginStatus entry that stands for required plugin r
EntryFor(entry, r) ==
  entry.name.t = "string" /\ ContainsCI(entry.name.s, RequiredWord(r))

\* C27: after a plugin listing was fetched, the cycle's plugin list has
\* one entry per required plugin and no other, and the entry of a required
\* plugin is available exactly when the listing holds a match for it.
C27_PerRequiredPlugin ==
  \A c \in CycleIds :
    cycles[c].pluginsResult = "listed" =>
      /\ Len(cycles[c].plugins) = Cardinality(Required)
      /\ \A r \in Required :
           \E i \in 1..Len(cycles[c].plugins) :
             /\ EntryFor(cycles[c].plugins[i], r)
             /\ cycles[c].plugins[i].available
                  <=> PresentInListing(r, cycles[c].listing)

\* ------------------------------------------------- loading, lastChecked
\* C28: while the page is mounted and a fetchDiagnostics cycle is in
\* flight, loading is true.
C28_LoadingTracksInFlight ==
  (mounted /\ InFlightCycles # {}) => loading

\* C29: lastChecked changes only in the step in which a cycle completes
\* through the try, and then to that cycle's time; a cycle that ends in
\* the catch leaves it as it was; it is null unless some cycle has
\* completed through the try.
C29_LastCheckedOnSuccess ==
  [][ /\ lastChecked' # lastChecked =>
           /\ lastChecked' \in CycleIds
           /\ Ends(lastChecked')
           /\ cycles'[lastChecked'].end = "success"
      /\ \A c \in CycleIds :
           (Ends(c) /\ cycles'[c].end = "caught") => lastChecked' = lastChecked
      /\ lastChecked' # 0 => \E c \in CycleIds : cycles'[c].end = "success"
    ]_vars

\* C29 witness: a cycle ended in the catch, its connection-error snapshot
\* is shown and lastChecked is still null
C29_Witness ==
  /\ mounted
  /\ \E c \in CycleIds : cycles[c].end = "caught" /\ origin["problems"] = c
  /\ diagnostics.problems = << ConnectionError >>
  /\ lastChecked = 0

\* C30: at most one interval timer exists at any time, and none exists
\* while autoRefresh is false or the page is unmounted.
C30_OneTimer ==
  /\ intervals <= 1
  /\ (~autoRefresh \/ ~mounted) => intervals = 0

\* C30 witness: autoRefresh was switched off and on again and a tick of
\* the new timer has changed refreshKey; one timer exists
C30_Witness ==
  /\ mounted /\ autoRefresh
  /\ event \in {"toggle", "toggle-busy"}
  /\ refreshKey > 0
  /\ intervals = 1

====
